---- MODULE Spec2Model ----
(***************************************************************************)
(* Model of scripts/rag_parquet_exposures.py: the turn-processing function *)
(* get_response_for_chatbot (schema lookup, query synthesis, sanitizing,   *)
(* primary execution, fallback execution, result formatting, answer        *)
(* synthesis, conversation assembly) and the CLI loop that threads the     *)
(* returned conversation into the next call.                               *)
(*                                                                         *)
(* Texts are sequences of one-character strings or of text fragments, so   *)
(* that strip / replace / f-string concatenation are computed.  External   *)
(* collaborators (the store, the text-generation endpoint) answer          *)
(* nondeterministically: success with a value from a small set, or an      *)
(* exception.                                                              *)
(***************************************************************************)
EXTENDS Integers, Sequences, FiniteSets, TLC

\* ---------------------------------------------------------------- bounds
MaxTurns == 2
MaxHistLen == 2

\* ------------------------------------------------------ program constants
\* number of columns tested by the fallback query (params = [...] * 10)
NumColumns == 10

\* the backquote character (a string literal cannot hold it)
BT == "bq"

SYSTEM_MESSAGE == <<"SYSTEM_MESSAGE">>

parquet_path == "data/exposures.parquet"

\* matches_table for an empty result set
Sentinel == <<"No matching records found.">>

ApologyPrefix == "I encountered an error processing your question: "

\* Python's None in a text field / in the data field
NoneText == "None"
NoneData == <<"None">>

\* a local name that is not bound yet
Unbound == <<"<unbound>">>

\* ------------------------------------------------------------ input sets
\* what the user can type at the prompt / pass as user_question
Inputs == { <<"Q">>, <<" ">>, <<"a">>, <<"a", "'">> }

\* message.content values the endpoint can return for query synthesis
RawResponses ==
    { <<"S">>,
      <<BT, BT, BT, "s", "q", "l", "\n", "S", "\n", BT, BT, BT>>,
      <<" ", BT, BT, BT, "S", BT, BT, BT, " ">>,
      <<"S", " ", "x", "\n">> }

\* message.content values the endpoint can return for answer synthesis
Answers == { <<"answer">> }

\* exception texts of the store
Errors == { "Binder Error", "IO Error" }

\* result sets the store can return (rows in order)
ResultSets == { <<>>, <<"rowB">>, <<"rowA", "rowC">> }

Roles == { "system", "user", "assistant" }

Turn(r, c) == [role |-> r, content |-> c]

\* ---------------------------------------------------------- text helpers
Whitespace == { " ", "\n" }

RECURSIVE LStrip(_)
LStrip(s) ==
    IF s # <<>> /\ Head(s) \in Whitespace THEN LStrip(Tail(s)) ELSE s

RECURSIVE RStrip(_)
RStrip(s) ==
    IF s # <<>> /\ s[Len(s)] \in Whitespace
    THEN RStrip(SubSeq(s, 1, Len(s) - 1))
    ELSE s

\* str.strip()
Strip(s) == RStrip(LStrip(s))

\* str.replace(old, ""): leftmost non-overlapping occurrences removed
RECURSIVE Remove(_, _)
Remove(s, old) ==
    IF Len(s) < Len(old) THEN s
    ELSE IF SubSeq(s, 1, Len(old)) = old
         THEN Remove(SubSeq(s, Len(old) + 1, Len(s)), old)
         ELSE <<Head(s)>> \o Remove(Tail(s), old)

FenceSql == <<BT, BT, BT, "s", "q", "l">>
Fence == <<BT, BT, BT>>

\* str.lower() on the input alphabet
Lower(s) == [i \in 1..Len(s) |-> IF s[i] = "Q" THEN "q" ELSE s[i]]

QuitWords == { <<"q", "u", "i", "t">>, <<"e", "x", "i", "t">>, <<"q">> }

\* lines 114-116: strip, drop code fences, strip
Sanitize(raw) == Strip(Remove(Remove(Strip(raw), FenceSql), Fence))

\* ------------------------------------------------------- fallback query
\* the columns named in lines 128-137
Columns ==
    <<"vesselId", "vessel", "operator", "year", "type", "value",
      "tonnage", "length", "cargoType", "premium">>

RECURSIVE WhereClause(_)
WhereClause(i) ==
    IF i > Len(Columns) THEN <<>>
    ELSE <<"CAST(", Columns[i], " AS VARCHAR) ILIKE ", "?">>
         \o (IF i < Len(Columns) THEN <<" OR ">> ELSE <<>>)
         \o WhereClause(i + 1)

\* the fallback text with the question interpolated instead of bound
FallbackQuery_Interpolated(path, question) ==
    <<"SELECT * FROM '", path, "' WHERE vessel ILIKE '%">> \o question
    \o <<"%' LIMIT 10">>

\* lines 124-139: the f-string; path and question are the names in scope
FallbackQuery(path, question) ==
    <<"SELECT * FROM '", path, "' WHERE ">> \o WhereClause(1) \o <<" LIMIT 10">>

\* line 141: f'%{user_question}%'
SearchPattern(question) == <<"%">> \o question \o <<"%">>

\* line 142: [search_pattern] * 10
Params(question) == [i \in 1..NumColumns |-> SearchPattern(question)]

\* number of "?" placeholders in a query text
RECURSIVE Placeholders(_)
Placeholders(q) ==
    IF q = <<>> THEN 0
    ELSE (IF Head(q) = "?" THEN 1 ELSE 0) + Placeholders(Tail(q))

\* ------------------------------------------------------ result formatting
\* DataFrame.to_markdown(index=False): header row, separator row, data rows
ToMarkdown(df) == <<"| header |", "|:------|">> \o df

\* the formatter without the empty-result branch
FormatResult_AlwaysTable(df) == ToMarkdown(df)

\* lines 161-164
FormatResult(df) == IF Len(df) > 0 THEN ToMarkdown(df) ELSE Sentinel

\* line 196: DataFrame.to_dict('records') or []
ToRecords(df) == IF Len(df) > 0 THEN df ELSE <<>>

\* line 172: f"{user_question}\nSources: {matches_table}"
AnswerPrompt(question, table) == question \o <<"\nSources: ">> \o table

\* ------------------------------------------------------- conversation
\* the step with the role test of line 180 left out
EnsureSystemFirst_OnlyIfEmpty(history) ==
    IF history = <<>>
    THEN <<Turn("system", SYSTEM_MESSAGE)>> \o history
    ELSE history

\* the step with the else branch of lines 184-185 left out
EnsureSystemFirst_Always(history) ==
    <<Turn("system", SYSTEM_MESSAGE)>> \o history

\* lines 180-185
EnsureSystemFirst(history) ==
    IF history = <<>> \/ history[1].role # "system"
    THEN <<Turn("system", SYSTEM_MESSAGE)>> \o history
    ELSE history

\* lines 188-191
AppendTurns(msgs, question, answer) ==
    msgs \o <<Turn("user", question), Turn("assistant", answer)>>

\* line 152: f"I encountered an error processing your question: {...}"
Apology(err) == <<ApologyPrefix, err>>

\* lines 148-153
FailureMessages(history, question, err) ==
    history \o <<Turn("system", SYSTEM_MESSAGE),
                 Turn("user", question),
                 Turn("assistant", Apology(err))>>

\* the failure outcome with the error field left at None
FailureOutcome_NoError(history, question, query, err) ==
    [messages |-> FailureMessages(history, question, err),
     sql_query |-> query,
     data |-> NoneData,
     success |-> FALSE,
     error |-> NoneText]

\* lines 147-158
FailureOutcome(history, question, query, err) ==
    [messages |-> FailureMessages(history, question, err),
     sql_query |-> query,
     data |-> NoneData,
     success |-> FALSE,
     error |-> err]

\* lines 193-199
SuccessOutcome(msgs, query, df) ==
    [messages |-> msgs,
     sql_query |-> query,
     data |-> ToRecords(df),
     success |-> TRUE,
     error |-> NoneText]

\* the value of `result` before any call has returned
NoOutcome ==
    [messages |-> <<>>, sql_query |-> Unbound, data |-> NoneData,
     success |-> FALSE, error |-> NoneText]

\* ------------------------------------------------------------- state
VARIABLES
    pc,                         \* position of the program
    calls_left,                 \* calls of get_response_for_chatbot still explored
    main_conversation_history,  \* the caller's conversation_history (line 210)
    user_question,              \* parameter of get_response_for_chatbot
    conversation_history,       \* parameter of get_response_for_chatbot
    raw_response,               \* sql_response.choices[0].message.content
    search_query,
    params,
    executed_query,             \* text last handed to con.execute
    matching_df,
    matches_table,
    answer_prompt,              \* user content of the answer-synthesis request
    assistant_response,
    result,                     \* the dict returned by the call
    con,                        \* connection bound by the current with-block
    cons,                       \* connections that are open
    con_count,                  \* connections created so far
    exc,                        \* exception in flight inside a with-block
    trace                       \* external calls of the current turn, in order

locals ==
    <<raw_response, search_query, params, executed_query, matching_df,
      matches_table, answer_prompt, assistant_response>>

conn == <<con, cons, con_count>>

caller == <<calls_left, main_conversation_history>>

args == <<user_question, conversation_history>>

vars == <<pc, caller, args, locals, result, conn, exc, trace>>

\* every history a caller can hand to the entry point (roles and contents
\* are free: the entry point accepts any list of role/content dicts)
HistoryTurns ==
    { Turn(r, c) : r \in Roles, c \in { SYSTEM_MESSAGE, <<"a">> } }

RECURSIVE SeqsUpTo(_, _)
SeqsUpTo(S, n) ==
    IF n = 0 THEN { <<>> }
    ELSE LET shorter == SeqsUpTo(S, n - 1)
         IN  shorter \cup { Append(h, t) : h \in shorter, t \in S }

Histories == SeqsUpTo(HistoryTurns, MaxHistLen)

InitLocals ==
    /\ raw_response = Unbound
    /\ search_query = Unbound
    /\ params = <<>>
    /\ executed_query = Unbound
    /\ matching_df = Unbound
    /\ matches_table = Unbound
    /\ answer_prompt = Unbound
    /\ assistant_response = Unbound

InitCommon ==
    /\ pc = "input"
    /\ user_question = <<>>
    /\ conversation_history = <<>>
    /\ InitLocals
    /\ result = NoOutcome
    /\ con = 0
    /\ cons = {}
    /\ con_count = 0
    /\ exc = NoneText
    /\ trace = <<>>

\* line 210: the CLI starts with an empty history
Init ==
    /\ InitCommon
    /\ calls_left = MaxTurns
    /\ main_conversation_history = <<>>

\* a chatbot integration makes one call with a history of its own
InitApi ==
    /\ InitCommon
    /\ calls_left = 1
    /\ main_conversation_history \in Histories

\* ------------------------------------------------------- with-blocks
\* duckdb.connect() and __enter__: a new connection object
Connect(next) ==
    /\ con_count' = con_count + 1
    /\ con' = con_count + 1
    /\ cons' = cons \cup {con_count + 1}
    /\ exc' = NoneText
    /\ pc' = next

\* a close() placed after the execute instead of a with-block
WithExit_LeakOnFailure(open, c, failed) ==
    IF failed THEN open ELSE open \ {c}

\* __exit__ of `with duckdb.connect() as con`: closes on both paths
WithExit(open, c, failed) == open \ {c}

\* the handler as it would be if the endpoint call sat outside the try
TryHandler_SynthRaises(where) ==
    IF where = "synth" THEN "raised" ELSE "fallback_build"

\* the handler as it would be with a retry of a failed synthesis call
TryHandler_RetrySynthesis(where) ==
    IF where = "synth" THEN "synth" ELSE "fallback_build"

\* line 122: `except Exception` catches whatever lines 104-120 raise
TryHandler(where) == "fallback_build"

\* ------------------------------------------------------------ CLI loop
\* lines 215-220
CliQuit ==
    /\ pc = "input"
    /\ \E text \in Inputs :
          /\ Lower(text) \in QuitWords
          /\ pc' = "exit"
    /\ UNCHANGED <<caller, args, locals, result, conn, exc, trace>>

\* lines 222-223
CliBlank ==
    /\ pc = "input"
    /\ \E text \in Inputs :
          /\ Lower(text) \notin QuitWords
          /\ Strip(text) = <<>>
          /\ pc' = "input"
    /\ UNCHANGED <<caller, args, locals, result, conn, exc, trace>>

\* line 226 and lines 80-81: the call is entered
CliAsk ==
    /\ pc = "input"
    /\ calls_left > 0
    /\ \E text \in Inputs :
          /\ Lower(text) \notin QuitWords
          /\ Strip(text) # <<>>
          /\ user_question' = text
    /\ conversation_history' = main_conversation_history
    /\ calls_left' = calls_left - 1
    /\ result' = NoOutcome
    /\ trace' = <<>>
    /\ pc' = "schema_connect"
    /\ UNCHANGED <<main_conversation_history, locals, conn, exc>>

\* line 229, then back to the prompt; the callee's locals are gone
CliUpdate ==
    /\ pc = "returned"
    /\ main_conversation_history' = result.messages
    /\ pc' = "input"
    /\ raw_response' = Unbound
    /\ search_query' = Unbound
    /\ params' = <<>>
    /\ executed_query' = Unbound
    /\ matching_df' = Unbound
    /\ matches_table' = Unbound
    /\ answer_prompt' = Unbound
    /\ assistant_response' = Unbound
    /\ con' = 0
    /\ exc' = NoneText
    /\ trace' = <<>>
    /\ UNCHANGED <<calls_left, args, result, cons, con_count>>

\* ------------------------------------------------------- schema lookup
\* line 27
SchemaConnect ==
    /\ pc = "schema_connect"
    /\ Connect("schema_count")
    /\ UNCHANGED <<caller, args, locals, result, trace>>

\* line 28
SchemaCount ==
    /\ pc = "schema_count"
    /\ \/ /\ pc' = "schema_describe"
          /\ UNCHANGED <<exc, trace>>
       \/ \E e \in Errors :
             /\ exc' = e
             /\ trace' = Append(trace, "schema_fail")
             /\ pc' = "schema_exit"
    /\ UNCHANGED <<caller, args, locals, result, conn>>

\* lines 29-31
SchemaDescribe ==
    /\ pc = "schema_describe"
    /\ \/ /\ trace' = Append(trace, "schema_ok")
          /\ UNCHANGED exc
       \/ \E e \in Errors :
             /\ exc' = e
             /\ trace' = Append(trace, "schema_fail")
    /\ pc' = "schema_exit"
    /\ UNCHANGED <<caller, args, locals, result, conn>>

\* end of the with-block of line 27; line 83 is outside any try
SchemaExit ==
    /\ pc = "schema_exit"
    /\ cons' = WithExit(cons, con, exc # NoneText)
    /\ pc' = IF exc # NoneText THEN "raised" ELSE "synth"
    /\ UNCHANGED <<caller, args, locals, result, con, con_count, exc, trace>>

\* ----------------------------------------------- query synthesis (try)
\* lines 105-116; a raising endpoint call and a content that is None
\* (AttributeError on .strip()) both leave the try block at line 122
SynthesizeQuery ==
    /\ pc = "synth"
    /\ \/ \E raw \in RawResponses :
             /\ raw_response' = raw
             /\ search_query' = Sanitize(raw)
             /\ trace' = Append(trace, "synth_ok")
             /\ pc' = "primary_connect"
       \/ /\ trace' = Append(trace, "synth_fail")
          /\ pc' = TryHandler("synth")
          /\ UNCHANGED <<raw_response, search_query>>
    /\ UNCHANGED <<caller, args, params, executed_query, matching_df,
                   matches_table, answer_prompt, assistant_response,
                   result, conn, exc>>

\* line 119
PrimaryConnect ==
    /\ pc = "primary_connect"
    /\ Connect("primary_exec")
    /\ UNCHANGED <<caller, args, locals, result, trace>>

\* line 120
PrimaryExec ==
    /\ pc = "primary_exec"
    /\ executed_query' = search_query
    /\ \/ \E df \in ResultSets :
             /\ matching_df' = df
             /\ trace' = Append(trace, "primary_ok")
             /\ UNCHANGED exc
       \/ \E e \in Errors :
             /\ exc' = e
             /\ trace' = Append(trace, "primary_fail")
             /\ UNCHANGED matching_df
    /\ pc' = "primary_exit"
    /\ UNCHANGED <<caller, args, raw_response, search_query, params,
                   matches_table, answer_prompt, assistant_response,
                   result, conn>>

\* end of the with-block of line 119, then line 122 or line 160
PrimaryExit ==
    /\ pc = "primary_exit"
    /\ cons' = WithExit(cons, con, exc # NoneText)
    /\ pc' = IF exc # NoneText THEN TryHandler("primary") ELSE "format"
    /\ UNCHANGED <<caller, args, locals, result, con, con_count, exc, trace>>

\* ------------------------------------------------------ fallback (except)
\* the except branch binding the fallback text to another name, so that
\* search_query keeps what the try block left in it
FallbackBuild_KeepsQuery ==
    /\ pc = "fallback_build"
    /\ params' = Params(user_question)
    /\ exc' = NoneText
    /\ pc' = "fallback_connect"
    /\ UNCHANGED <<caller, args, raw_response, search_query, executed_query,
                   matching_df, matches_table, answer_prompt,
                   assistant_response, result, conn, trace>>

\* lines 124-142
FallbackBuild ==
    /\ pc = "fallback_build"
    /\ search_query' = FallbackQuery(parquet_path, user_question)
    /\ params' = Params(user_question)
    /\ exc' = NoneText
    /\ pc' = "fallback_connect"
    /\ UNCHANGED <<caller, args, raw_response, executed_query, matching_df,
                   matches_table, answer_prompt, assistant_response,
                   result, conn, trace>>

\* line 144
FallbackConnect ==
    /\ pc = "fallback_connect"
    /\ Connect("fallback_exec")
    /\ UNCHANGED <<caller, args, locals, result, trace>>

\* line 145
FallbackExec ==
    /\ pc = "fallback_exec"
    /\ executed_query' = search_query
    /\ \/ \E df \in ResultSets :
             /\ matching_df' = df
             /\ trace' = Append(trace, "fallback_ok")
             /\ UNCHANGED exc
       \/ \E e \in Errors :
             /\ exc' = e
             /\ trace' = Append(trace, "fallback_fail")
             /\ UNCHANGED matching_df
    /\ pc' = "fallback_exit"
    /\ UNCHANGED <<caller, args, raw_response, search_query, params,
                   matches_table, answer_prompt, assistant_response,
                   result, conn>>

\* end of the with-block of line 144, then lines 146-158 or line 160
FallbackExit ==
    /\ pc = "fallback_exit"
    /\ cons' = WithExit(cons, con, exc # NoneText)
    /\ IF exc # NoneText
       THEN /\ result' = FailureOutcome(conversation_history, user_question,
                                        search_query, exc)
            /\ pc' = "returned"
       ELSE /\ pc' = "format"
            /\ UNCHANGED result
    /\ UNCHANGED <<caller, args, locals, con, con_count, exc, trace>>

\* ------------------------------------------------- format, answer, return
\* lines 161-164
Format ==
    /\ pc = "format"
    /\ matches_table' = FormatResult(matching_df)
    /\ pc' = "answer"
    /\ UNCHANGED <<caller, args, raw_response, search_query, params,
                   executed_query, matching_df, answer_prompt,
                   assistant_response, result, conn, exc, trace>>

\* lines 167-176; outside any try, so a failure leaves the function
SynthesizeAnswer ==
    /\ pc = "answer"
    /\ answer_prompt' = AnswerPrompt(user_question, matches_table)
    /\ \/ \E a \in Answers :
             /\ assistant_response' = a
             /\ trace' = Append(trace, "answer_ok")
             /\ pc' = "build"
       \/ /\ trace' = Append(trace, "answer_fail")
          /\ pc' = "raised"
          /\ UNCHANGED assistant_response
    /\ UNCHANGED <<caller, args, raw_response, search_query, params,
                   executed_query, matching_df, matches_table,
                   result, conn, exc>>

\* the caller's list if line 185 bound messages to conversation_history
\* itself: the extend of line 188 would then grow the caller's list
InputListAfterBuild_NoCopy(history, question, answer) ==
    IF history = <<>> \/ history[1].role # "system"
    THEN history
    ELSE AppendTurns(history, question, answer)

\* the list object passed as conversation_history, after lines 180-191:
\* messages is a new list (line 181) or a copy (line 185), so the extend
\* calls of lines 183 and 188 do not reach the caller's list
InputListAfterBuild(history, question, answer) == history

\* lines 178-199; the parameter and the caller's variable name one list
BuildAndReturn ==
    /\ pc = "build"
    /\ result' = SuccessOutcome(
                     AppendTurns(EnsureSystemFirst(conversation_history),
                                 user_question, assistant_response),
                     search_query, matching_df)
    /\ conversation_history' =
          InputListAfterBuild(conversation_history, user_question,
                              assistant_response)
    /\ main_conversation_history' = conversation_history'
    /\ pc' = "returned"
    /\ UNCHANGED <<calls_left, user_question, locals, conn, exc, trace>>

\* --------------------------------------------------------- specification
Next ==
    \/ CliQuit
    \/ CliBlank
    \/ CliAsk
    \/ CliUpdate
    \/ SchemaConnect
    \/ SchemaCount
    \/ SchemaDescribe
    \/ SchemaExit
    \/ SynthesizeQuery
    \/ PrimaryConnect
    \/ PrimaryExec
    \/ PrimaryExit
    \/ FallbackBuild
    \/ FallbackConnect
    \/ FallbackExec
    \/ FallbackExit
    \/ Format
    \/ SynthesizeAnswer
    \/ BuildAndReturn

\* the CLI session of lines 203-241
Spec == Init /\ [][Next]_vars

\* the entry point called with a caller-supplied history
SpecApi == InitApi /\ [][Next]_vars

\* ------------------------------------------------------- properties
InTrace(e) == \E i \in 1..Len(trace) : trace[i] = e

Returned == pc = "returned"

StartsWithSystem(h) == h # <<>> /\ h[1].role = "system"

\* one system turn, then user, assistant, user, assistant, ...
SystemThenAlternating(msgs) ==
    /\ Len(msgs) >= 1
    /\ \A i \in 1..Len(msgs) :
          msgs[i].role = IF i = 1 THEN "system"
                         ELSE IF i % 2 = 0 THEN "user" ELSE "assistant"

\* C1: in a session that starts from an empty history and feeds every
\* returned conversation into the next call, every returned conversation is
\* one system turn followed by strictly alternating user/assistant turns,
\* whether the turns succeeded or failed.
C1_SystemThenAlternating ==
    Returned => SystemThenAlternating(result.messages)

IsSuccessOutcome(r) ==
    /\ r.success = TRUE
    /\ r.sql_query # Unbound
    /\ r.data # NoneData
    /\ r.messages # <<>>
    /\ r.messages[Len(r.messages)].role = "assistant"

IsFailureOutcome(r) ==
    /\ r.success = FALSE
    /\ r.error # NoneText
    /\ r.messages # <<>>
    /\ r.messages[Len(r.messages)] = Turn("assistant", Apology(r.error))

\* C2: every call, whichever external call fails, ends by returning a
\* success outcome or a failure outcome; it never ends any other way.
C2_TwoTerminalOutcomes ==
    pc \in {"returned", "raised"} =>
        /\ pc = "returned"
        /\ IsSuccessOutcome(result) \/ IsFailureOutcome(result)

FallbackExecuted == InTrace("fallback_ok") \/ InTrace("fallback_fail")

InFallback ==
    pc \in {"fallback_build", "fallback_connect", "fallback_exec",
            "fallback_exit"}

C4_SuccessLength ==
    (Returned /\ result.success) =>
        Len(result.messages) =
            Len(conversation_history)
            + (IF StartsWithSystem(conversation_history) THEN 2 ELSE 3)

C4_Witness ==
    /\ Returned
    /\ result.success
    /\ conversation_history # <<>>
    /\ conversation_history[1].role = "user"
    /\ Len(result.messages) = Len(conversation_history) + 3

\* the conversation as the system-first step left it: the returned
\* conversation without the two turns appended afterwards
AfterSystemFirst == SubSeq(result.messages, 1, Len(result.messages) - 2)

\* C5: the system-first step leaves the prior conversation unchanged if its
\* turn 0 is a system turn; otherwise it puts one system turn with the fixed
\* SYSTEM_MESSAGE at position 0 and every prior turn follows, unchanged and
\* in order.
C5_EnsureSystemFirst ==
    (Returned /\ result.success) =>
        IF StartsWithSystem(conversation_history)
        THEN AfterSystemFirst = conversation_history
        ELSE /\ Len(AfterSystemFirst) = Len(conversation_history) + 1
             /\ AfterSystemFirst[1] = Turn("system", SYSTEM_MESSAGE)
             /\ \A i \in 1..Len(conversation_history) :
                   AfterSystemFirst[i + 1] = conversation_history[i]

C5_Witness ==
    /\ Returned
    /\ result.success
    /\ Len(conversation_history) = 2
    /\ conversation_history[1].role = "system"
    /\ conversation_history[1].content # SYSTEM_MESSAGE
    /\ AfterSystemFirst = conversation_history

\* C6: when both the primary and the fallback execution fail, the call
\* returns success=false, the fallback's error text in error, no data, and a
\* conversation ending in the assistant apology for that error; the store is
\* not queried a third time and the answer-synthesis call is not made.
C6_BothFail ==
    (Returned /\ InTrace("primary_fail") /\ InTrace("fallback_fail")) =>
        /\ result.success = FALSE
        /\ result.error \in Errors
        /\ result.error = exc
        /\ result.data = NoneData
        /\ result.messages[Len(result.messages)] =
              Turn("assistant", <<ApologyPrefix, exc>>)
        /\ trace[Len(trace)] = "fallback_fail"
        /\ ~InTrace("answer_ok") /\ ~InTrace("answer_fail")
        /\ Cardinality({i \in 1..Len(trace) :
                          trace[i] \in {"fallback_ok", "fallback_fail"}}) = 1

C6_Witness ==
    /\ Returned
    /\ InTrace("primary_fail")
    /\ InTrace("fallback_fail")
    /\ result.error = "IO Error"

NoFence(q) ==
    /\ \A i \in 1..Len(q) : q[i] # BT
    /\ q # <<>> => (q[1] \notin Whitespace /\ q[Len(q)] \notin Whitespace)

FallbackBuilt ==
    pc \in {"fallback_connect", "fallback_exec", "fallback_exit"}
    \/ FallbackExecuted

\* C8: the fallback query text is one fixed text, the same for every
\* question; the question occurs only in the bound value '%question%', which
\* is bound once per placeholder, and there are as many bound values as
\* placeholders.
C8_FallbackParameterized ==
    FallbackBuilt =>
        /\ search_query = FallbackQuery(parquet_path, <<>>)
        /\ \A i \in 1..Len(search_query) : search_query[i] # "'"
        /\ Len(params) = Placeholders(search_query)
        /\ Len(params) = Len(Columns)
        /\ \A i \in 1..Len(params) :
              params[i] = <<"%">> \o user_question \o <<"%">>

C8_Witness ==
    /\ pc = "fallback_exit"
    /\ InTrace("fallback_ok")
    /\ user_question = <<"a", "'">>
    /\ executed_query = search_query

\* the query executed last in the turn succeeded with no rows
EmptyResult ==
    /\ matching_df = <<>>
    /\ trace # <<>>
    /\ trace[Len(trace)] \in {"primary_ok", "fallback_ok", "answer_ok",
                              "answer_fail"}

\* C9: an empty result set is not an error and does not trigger the
\* fallback: the text after 'Sources:' in the answer prompt is the sentinel,
\* not a table; the answer-synthesis call is made; and the outcome is a
\* success with an empty data list.
C9_EmptyResult ==
    EmptyResult =>
        /\ pc \in {"primary_exit", "fallback_exit", "format", "answer",
                   "build", "returned", "raised"}
        /\ InTrace("primary_ok") => ~InFallback /\ ~FallbackExecuted
        /\ pc \in {"answer", "build", "returned", "raised"} =>
              matches_table = <<"No matching records found.">>
        /\ pc \in {"build", "returned", "raised"} =>
              /\ InTrace("answer_ok") \/ InTrace("answer_fail")
              /\ answer_prompt =
                    user_question
                    \o <<"\nSources: ", "No matching records found.">>
        /\ Returned =>
              /\ result.success
              /\ result.data = <<>>
              /\ result.error = NoneText

C9_Witness ==
    /\ Returned
    /\ matching_df = <<>>
    /\ InTrace("fallback_ok")
    /\ result.success
    /\ result.data = <<>>

\* C10: every store access has a connection of its own, open only during
\* that access: never more than one connection is open, the connection of a
\* failed primary attempt is closed before the fallback opens its own, and
\* none is open when the turn returns or raises.
C10_ScopedConnections ==
    /\ Cardinality(cons) <= 1
    /\ pc \in {"schema_count", "schema_describe", "schema_exit",
               "primary_exec", "primary_exit",
               "fallback_exec", "fallback_exit"}
          => cons = {con} /\ con = con_count
    /\ pc \in {"input", "exit", "schema_connect", "synth", "primary_connect",
               "fallback_build", "fallback_connect", "format", "answer",
               "build", "returned", "raised"}
          => cons = {}

C10_Witness ==
    /\ pc = "fallback_exec"
    /\ InTrace("primary_fail")
    /\ cons = {con}
    /\ con = 3

\* h occurs in msgs as one block: same turns, same order, nothing between
ContainsBlock(msgs, h) ==
    \E k \in 0..(Len(msgs) - Len(h)) :
        \A i \in 1..Len(h) : msgs[k + i] = h[i]

\* C11: the conversation is an append-only log.  Every step of a call
\* leaves the list passed as conversation_history as it was (only the
\* caller's own rebinding of line 229 changes the caller's variable), and
\* every outcome returned, success or failure, holds all turns of the input,
\* unchanged and in order, with the added turns before or after them and
\* never between two of them.
C11_AppendOnlyLog ==
    [][ /\ pc # "input" => conversation_history' = conversation_history
        /\ pc # "returned" =>
              main_conversation_history' = main_conversation_history
        /\ (pc # "returned" /\ pc' = "returned") =>
              /\ ContainsBlock(result'.messages, conversation_history)
              /\ Len(result'.messages) > Len(conversation_history)
      ]_vars

C11_Witness ==
    /\ Returned
    /\ result.success
    /\ Len(conversation_history) = 2
    /\ conversation_history[1].role = "system"
    /\ main_conversation_history = conversation_history
    /\ Len(result.messages) = 4
    /\ SubSeq(result.messages, 1, 2) = conversation_history

\* the place of an external call in the order of lines 103-176 (0: the
\* schema lookup of line 83, which precedes them)
CallRank(e) ==
    IF e \in {"synth_ok", "synth_fail"} THEN 1
    ELSE IF e \in {"primary_ok", "primary_fail"} THEN 2
    ELSE IF e \in {"fallback_ok", "fallback_fail"} THEN 3
    ELSE IF e \in {"answer_ok", "answer_fail"} THEN 4
    ELSE 0

CountCalls(ranks) ==
    Cardinality({i \in 1..Len(trace) : CallRank(trace[i]) \in ranks})

\* C12: within one turn the calls come in the order query synthesis,
\* primary execution, fallback execution, answer synthesis, none of them
\* twice: at most two endpoint calls (one synthesis, one answer), at most two
\* query executions (one primary, one fallback), the primary execution only
\* after a synthesized text was obtained, and the answer-synthesis call only
\* after a query execution succeeded in that turn.
C12_CallOrder ==
    /\ \A i, j \in 1..Len(trace) :
          (i < j /\ CallRank(trace[i]) > 0) =>
              CallRank(trace[i]) < CallRank(trace[j])
    /\ CountCalls({1}) <= 1
    /\ CountCalls({4}) <= 1
    /\ CountCalls({1, 4}) <= 2
    /\ CountCalls({2}) <= 1
    /\ CountCalls({3}) <= 1
    /\ CountCalls({2, 3}) <= 2
    /\ \A j \in 1..Len(trace) :
          /\ CallRank(trace[j]) = 2 =>
                \E i \in 1..(j - 1) : trace[i] = "synth_ok"
          /\ CallRank(trace[j]) = 4 =>
                \E i \in 1..(j - 1) : trace[i] \in {"primary_ok", "fallback_ok"}

C12_Witness ==
    /\ Returned
    /\ trace = <<"schema_ok", "synth_ok", "primary_fail", "fallback_ok",
                 "answer_ok">>

====
